---- MODULE Spec2Model ----
(***************************************************************************)
(* A model of elshize/eval_metrics: the weighted-precision metrics         *)
(* (include/eval_metrics.hpp, include/irm.hpp), the TREC record parsers    *)
(* and the grouping / annotation engine (include/irm/trec.hpp).            *)
(*                                                                         *)
(* Doubles are modelled as exact rationals [n, d] in lowest terms, so an   *)
(* equality of the model is an equality of the real-number values the      *)
(* code rounds to double.                                                  *)
(***************************************************************************)
EXTENDS Integers, Sequences, FiniteSets, TLC

VARIABLES
    \* ---- weighted_precision::operator() (one evaluation, step by step)
    metric,      \* the weighted_precision object being evaluated
    relevance,   \* the relevance range handed to operator()
    ev_pc,       \* "idle" | "sum" | "done"
    ev_cutoff,   \* the local `cutoff` of operator()
    ev_it,       \* how far the two iterators of inner_product have advanced
    ev_acc,      \* the accumulator of inner_product
    ev_visited,  \* the indices dereferenced so far, in the order visited
    ev_fault,    \* TRUE once an iterator was dereferenced out of its range
    \* ---- trec_result::from / trec_rel::from (one call)
    pr_pc,       \* "idle" | "result" | "rel": which from() was called
    pr_tokens,   \* the tokens the caller wrote into the line
    pr_line,     \* the string handed to from()
    parsed,      \* the outcome of the call: a record returned or an error thrown
    \* ---- read_trec_rels / read_trec_results (one call, line by line)
    rd_pc,       \* "idle" | "reading" | "returned" | "failed"
    rd_kind,     \* "rels" | "results"
    rd_lines,    \* the lines the file was written from
    rd_file,     \* the characters of the file
    rd_pos,      \* the position of the stream in the file
    rd_out,      \* the vector being filled (rels / results)
    rd_err,      \* the error that ended the read, "" if none
    \* ---- annotate (one call)
    an_pc,       \* "idle" | "called" | "grouped" | "annotating" | "returned"
    an_results,  \* the results vector as it was handed to annotate
    an_rels,     \* the rels vector as it was handed to annotate
    grouped_results,  \* run -> iteration -> query -> results
    grouped_rels,     \* query -> rels
    an_todo,     \* the (run, iteration, query) keys the loops have yet to visit
    an_writes,   \* the records whose relevance was assigned, in order
    \* one call of parse_metric (tools/irm.cpp) or irm::parse_metric (irm.hpp)
    mp_pc,       \* "idle", then "tool" or "header": which function was called
    mp_prefix,   \* the name handed over is mp_prefix \o mp_arg
    mp_arg,
    mp_out,      \* the outcome of the call
    \* one run of main (tools/irm.cpp) from the point both files were read;
    \* its vectors qrels and results are an_rels and an_results
    mn_pc,       \* "idle", "parsing", "annotate", "scoring", "done", "terminated"
    metrics,           \* the metric names, in the order supplied
    metric_functions,  \* the metrics parsed so far
    mn_err,      \* what() of the exception that left main, "" if none
    mn_pairs,    \* the (run_id, iteration) pairs the two outer loops have yet to finish
    mn_queries,  \* the queries of the first of them the inner loop has yet to score
    metric_values,     \* per metric, the scores of the queries scored for the pair
    mn_scored,   \* every relevance_range handed to the metrics, with its keys
    mn_divisors, \* metric_values[m].size() of every average computed
    output       \* the lines written to std::cout

evVars == <<metric, relevance, ev_pc, ev_cutoff, ev_it, ev_acc, ev_visited, ev_fault>>
prVars == <<pr_pc, pr_tokens, pr_line, parsed>>

rdVars == <<rd_pc, rd_kind, rd_lines, rd_file, rd_pos, rd_out, rd_err>>

anVars == <<an_pc, an_results, an_rels, grouped_results, grouped_rels, an_todo, an_writes>>

mpVars == <<mp_pc, mp_prefix, mp_arg, mp_out>>

mnVars == <<mn_pc, metrics, metric_functions, mn_err, mn_pairs, mn_queries,
            metric_values, mn_scored, mn_divisors, output>>

vars == <<evVars, prVars, rdVars, anVars, mpVars, mnVars>>

\* What the actions of each component leave alone.
evOthers == <<prVars, rdVars, anVars, mpVars, mnVars>>
prOthers == <<evVars, rdVars, anVars, mpVars, mnVars>>
rdOthers == <<evVars, prVars, anVars, mpVars, mnVars>>
anOthers == <<evVars, prVars, rdVars, mpVars, mnVars>>
mpOthers == <<evVars, prVars, rdVars, anVars, mnVars>>
mnOthers == <<evVars, prVars, rdVars, mpVars>>

(***************************************************************************)
(* Bounds of the model.                                                    *)
(***************************************************************************)
MaxLen == 3      \* longest enumerated relevance sequence
MaxK == 8        \* largest k of precision_at(k)
MaxCutoff == 3   \* largest explicit cutoff of a hand-built weighted_precision
MaxFields == 8   \* most tokens on a line handed to from()
MaxLines == 3    \* most lines in a file
MaxResults == 3  \* most records in the results vector handed to annotate
MaxRels == 2     \* most records in the rels vector handed to annotate

(***************************************************************************)
(* Program constants.                                                      *)
(***************************************************************************)
\* std::numeric_limits<int>::max(), the default cutoff.
INT_MAX == 2147483647

(***************************************************************************)
(* Helpers: integers and exact rationals.                                  *)
(***************************************************************************)
Min(a, b) == IF a < b THEN a ELSE b

Abs(a) == IF a < 0 THEN -a ELSE a

RECURSIVE GCD(_, _)
GCD(a, b) == IF b = 0 THEN a ELSE GCD(b, a % b)

Rat(n, d) ==
    LET g == GCD(Abs(n), d)
    IN  IF n = 0 THEN [n |-> 0, d |-> 1] ELSE [n |-> n \div g, d |-> d \div g]

Zero == [n |-> 0, d |-> 1]
One == [n |-> 1, d |-> 1]

LCM(a, b) == (a \div GCD(a, b)) * b

RAdd(a, b) ==
    LET l == LCM(a.d, b.d)
    IN  Rat(a.n * (l \div a.d) + b.n * (l \div b.d), l)

RNeg(a) == [n |-> -a.n, d |-> a.d]

RSub(a, b) == RAdd(a, RNeg(b))

RMul(a, b) ==
    LET g1 == GCD(Abs(a.n), b.d)
        g2 == GCD(Abs(b.n), a.d)
    IN  IF a.n = 0 \/ b.n = 0 THEN Zero
        ELSE [n |-> (a.n \div g1) * (b.n \div g2), d |-> (a.d \div g2) * (b.d \div g1)]

RLe(a, b) ==
    LET l == LCM(a.d, b.d)
    IN  a.n * (l \div a.d) <= b.n * (l \div b.d)

RAbs(a) == [n |-> Abs(a.n), d |-> a.d]

FromInt(i) == [n |-> i, d |-> 1]

\* std::pow(x, n) for an integer n >= 0; pow(x, 0) is 1 for every x.
RECURSIVE Pow(_, _)
Pow(x, n) == IF n = 0 THEN One ELSE RMul(x, Pow(x, n - 1))

(***************************************************************************)
(* Weight ranges: a std::vector<double> or a series<double>.               *)
(***************************************************************************)
VectorWeights(s) == [kind |-> "vector", seq |-> s, p |-> Zero]

\* series<double>{[persistance](n) { (1.0 - persistance) * pow(persistance, n) }}
SeriesWeights(persistance) == [kind |-> "series", seq |-> <<>>, p |-> persistance]

\* weights_.size(): the vector's length, or series::size().  The source's
\* numeric_limits<ptrdiff_t>::max() is 2^63 - 1; it only ever meets min()
\* against a cutoff of at most INT_MAX, and is written here as INT_MAX.
WeightsSize(w) == IF w.kind = "vector" THEN Len(w.seq) ELSE INT_MAX

SeriesWeight_OneIndexed(persistance, n) ==
    RMul(RSub(One, persistance), Pow(persistance, n + 1))

SeriesWeight_NoNormalise(persistance, n) == Pow(persistance, n)

\* the generator of rank_biased_precision: (1.0 - persistance) * pow(persistance, n)
SeriesWeight(persistance, n) == RMul(RSub(One, persistance), Pow(persistance, n))

\* Whether index i (0-based) may be dereferenced in the weight range.
WeightInRange(w, i) == i >= 0 /\ i < WeightsSize(w)

\* *it for the weight iterator at index i (0-based).
WeightAt(w, i) ==
    IF w.kind = "vector"
    THEN w.seq[i + 1]
    ELSE SeriesWeight(w.p, i)

(***************************************************************************)
(* Relevance transforms.                                                   *)
(***************************************************************************)
\* [](const auto& r) { return r > 0 ? 1 : 0; }
Binary(r) == IF r > 0 THEN 1 ELSE 0

\* identity or the binary indicator
Transform(t, r) == IF t = "binary" THEN Binary(r) ELSE r

(***************************************************************************)
(* Metric factories.                                                       *)
(***************************************************************************)
weighted_precision(weights, cutoff, transform) ==
    [weights |-> weights, cutoff |-> cutoff, transform |-> transform]

precision_at_Graded(k) ==
    weighted_precision(VectorWeights([i \in 1..k |-> Rat(1, k)]), k, "identity")

\* weights: k copies of 1.0 / k; cutoff k; transform r > 0 ? 1 : 0
precision_at(k) ==
    weighted_precision(VectorWeights([i \in 1..k |-> Rat(1, k)]), k, "binary")

rank_biased_precision(persistance) ==
    weighted_precision(SeriesWeights(persistance), INT_MAX, "binary")

(***************************************************************************)
(* weighted_precision::operator()                                          *)
(***************************************************************************)
EffectiveCutoff_IgnoreWeights(m, n) == Min(m.cutoff, n)

\* cutoff = min(cutoff_, distance(first, last)); cutoff = min(cutoff, weights_.size())
EffectiveCutoff(m, n) == Min(Min(m.cutoff, n), WeightsSize(m.weights))

\* lhs * relevance_transform_(rhs)
Term(m, rel, i) ==
    RMul(WeightAt(m.weights, i), FromInt(Transform(m.transform, rel[i + 1])))

\* The whole of operator(): inner_product over [0, cutoff), from 0.0, ascending.
RECURSIVE InnerProduct(_, _, _)
InnerProduct(m, rel, last) ==
    IF last = 0 THEN Zero
    ELSE RAdd(InnerProduct(m, rel, last - 1), Term(m, rel, last - 1))

Evaluate(m, rel) == InnerProduct(m, rel, EffectiveCutoff(m, Len(rel)))

(***************************************************************************)
(* Strings.  A std::string is a sequence of one-character strings.         *)
(***************************************************************************)
\* What std::isspace accepts among the characters of the model.
Whitespace == {" ", "\t", "\r"}

Digits == {"0", "1", "2", "3", "4", "5", "6", "7", "8", "9"}

DigitVal(c) ==
    CASE c = "0" -> 0 [] c = "1" -> 1 [] c = "2" -> 2 [] c = "3" -> 3 [] c = "4" -> 4
      [] c = "5" -> 5 [] c = "6" -> 6 [] c = "7" -> 7 [] c = "8" -> 8 [] c = "9" -> 9

\* The first index >= i of s that holds no whitespace (Len(s) + 1 if none).
RECURSIVE SkipWs(_, _)
SkipWs(s, i) ==
    IF i <= Len(s) /\ s[i] \in Whitespace THEN SkipWs(s, i + 1) ELSE i

\* The first index >= i of s that holds whitespace (Len(s) + 1 if none).
RECURSIVE SkipNonWs(_, _)
SkipNonWs(s, i) ==
    IF i <= Len(s) /\ s[i] \notin Whitespace THEN SkipNonWs(s, i + 1) ELSE i

\* The first index >= i of s that holds no digit (Len(s) + 1 if none).
RECURSIVE SkipDigits(_, _)
SkipDigits(s, i) ==
    IF i <= Len(s) /\ s[i] \in Digits THEN SkipDigits(s, i + 1) ELSE i

\* `in >> field` on the stream positioned at index pos of line: leading
\* whitespace is skipped and the characters up to the next whitespace are
\* extracted; the extraction fails when none is left.
Extract(line, pos) ==
    LET b == SkipWs(line, pos)
        e == SkipNonWs(line, b)
    IN  [ok |-> b <= Len(line), field |-> SubSeq(line, b, e - 1), pos |-> e]

(***************************************************************************)
(* std::stoi and std::stod.                                                *)
(***************************************************************************)
INT_MIN == -INT_MAX - 1

\* Whether s[i] is a sign character.
IsSign(s, i) == i <= Len(s) /\ s[i] \in {"+", "-"}

\* The digits s[i .. j-1] as a non-positive number -v, or 1 when v does not
\* fit: strtol accumulates the magnitude and reports ERANGE on overflow.
RECURSIVE NegDigits(_, _, _, _)
NegDigits(s, i, j, acc) ==
    IF i >= j THEN acc
    ELSE LET d == DigitVal(s[i])
         IN  IF acc < -(INT_MAX \div 10)
                \/ (acc = -(INT_MAX \div 10) /\ d > (INT_MAX % 10) + 1)
             THEN 1
             ELSE NegDigits(s, i + 1, j, acc * 10 - d)

Stoi_NoSign(s) ==
    LET e == SkipDigits(s, 1)
        neg == NegDigits(s, 1, e, 0)
    IN  IF e = 1 \/ neg = 1 \/ neg = INT_MIN THEN [ok |-> FALSE, val |-> 0]
        ELSE [ok |-> TRUE, val |-> -neg]

\* std::stoi(field): an optional sign and the longest run of digits after it
\* are converted; what follows the digits is ignored (no pos argument is
\* passed and none is checked).  No digit: std::invalid_argument; a value
\* outside int: std::out_of_range.  ok = FALSE stands for either exception.
Stoi(s) ==
    LET b == IF IsSign(s, 1) THEN 2 ELSE 1
        e == SkipDigits(s, b)
        neg == NegDigits(s, b, e, 0)
        minus == IsSign(s, 1) /\ s[1] = "-"
    IN  IF e = b THEN [ok |-> FALSE, val |-> 0]
        ELSE IF neg = 1 \/ (~minus /\ neg = INT_MIN) THEN [ok |-> FALSE, val |-> 0]
        ELSE [ok |-> TRUE, val |-> IF minus THEN neg ELSE -neg]

\* The digits s[i .. j-1] as a natural number.
RECURSIVE NatDigits(_, _, _, _)
NatDigits(s, i, j, acc) ==
    IF i >= j THEN acc ELSE NatDigits(s, i + 1, j, acc * 10 + DigitVal(s[i]))

\* 10^n as a rational, n any integer.
Pow10(n) == IF n >= 0 THEN Pow(FromInt(10), n) ELSE Pow(Rat(1, 10), -n)

\* std::stod(field) on a decimal literal: an optional sign, digits with an
\* optional point (at least one digit in all), and an optional exponent
\* (e or E, an optional sign, at least one digit); what follows is ignored.
\* No digit: std::invalid_argument.  (Tokens spelling inf, nan or a
\* hexadecimal literal, and values outside double, are not among the inputs.)
Stod(s) ==
    LET b == IF IsSign(s, 1) THEN 2 ELSE 1
        minus == IsSign(s, 1) /\ s[1] = "-"
        ie == SkipDigits(s, b)
        point == ie <= Len(s) /\ s[ie] = "."
        fb == IF point THEN ie + 1 ELSE ie
        fe == IF point THEN SkipDigits(s, fb) ELSE ie
        hasExpChar == fe <= Len(s) /\ s[fe] \in {"e", "E"}
        xb == IF IsSign(s, fe + 1) THEN fe + 2 ELSE fe + 1
        xe == SkipDigits(s, xb)
        hasExp == hasExpChar /\ xe > xb
        xneg == IsSign(s, fe + 1) /\ s[fe + 1] = "-"
        xval == IF hasExp THEN NatDigits(s, xb, xe, 0) ELSE 0
        mant == RAdd(FromInt(NatDigits(s, b, ie, 0)),
                     RMul(FromInt(NatDigits(s, fb, fe, 0)), Pow10(-(fe - fb))))
        mag == RMul(mant, Pow10(IF xneg THEN -xval ELSE xval))
    IN  IF (ie - b) + (fe - fb) = 0 THEN [ok |-> FALSE, val |-> Zero]
        ELSE [ok |-> TRUE, val |-> IF minus THEN RNeg(mag) ELSE mag]

(***************************************************************************)
(* trec_result and trec_rel.                                               *)
(***************************************************************************)
\* `trec_result rec;`: the strings are empty and relevance is 0; rank and
\* score are indeterminate until assigned (written 0 here: from() returns no
\* record in which they were not assigned).
NewResult ==
    [query_id |-> <<>>, iteration |-> <<>>, document_id |-> <<>>,
     rank |-> 0, score |-> Zero, run_id |-> <<>>, relevance |-> 0]

\* `trec_rel rec;`
NewRel ==
    [query_id |-> <<>>, iteration |-> <<>>, document_id |-> <<>>, relevance |-> 0]

\* The outcome of a call that returns v, and of one that throws
\* trec_format_error(what).
Returned(v) == [err |-> "", value |-> <<v>>]
Thrown(what) == [err |-> what, value |-> <<>>]

ResultParseField_IgnoreExtra(rec, field, field_num) ==
    CASE field_num = 0 -> Returned([rec EXCEPT !.query_id = field])
      [] field_num = 1 -> Returned([rec EXCEPT !.iteration = field])
      [] field_num = 2 -> Returned([rec EXCEPT !.document_id = field])
      [] field_num = 3 ->
            IF Stoi(field).ok
            THEN Returned([rec EXCEPT !.rank = Stoi(field).val])
            ELSE Thrown("cannot parse rank")
      [] field_num = 4 ->
            IF Stod(field).ok
            THEN Returned([rec EXCEPT !.score = Stod(field).val])
            ELSE Thrown("cannot parse score")
      [] field_num = 5 -> Returned([rec EXCEPT !.run_id = field])
      [] OTHER -> Returned(rec)

\* trec_result::parse_field
ResultParseField(rec, field, field_num) ==
    CASE field_num = 0 -> Returned([rec EXCEPT !.query_id = field])
      [] field_num = 1 -> Returned([rec EXCEPT !.iteration = field])
      [] field_num = 2 -> Returned([rec EXCEPT !.document_id = field])
      [] field_num = 3 ->
            IF Stoi(field).ok
            THEN Returned([rec EXCEPT !.rank = Stoi(field).val])
            ELSE Thrown("cannot parse rank")
      [] field_num = 4 ->
            IF Stod(field).ok
            THEN Returned([rec EXCEPT !.score = Stod(field).val])
            ELSE Thrown("cannot parse score")
      [] field_num = 5 -> Returned([rec EXCEPT !.run_id = field])
      [] OTHER -> Thrown("too many fields")

\* trec_rel::parse_field
RelParseField(rec, field, field_num) ==
    CASE field_num = 0 -> Returned([rec EXCEPT !.query_id = field])
      [] field_num = 1 -> Returned([rec EXCEPT !.iteration = field])
      [] field_num = 2 -> Returned([rec EXCEPT !.document_id = field])
      [] field_num = 3 ->
            IF Stoi(field).ok
            THEN Returned([rec EXCEPT !.relevance = Stoi(field).val])
            ELSE Thrown("cannot parse relevance")
      [] OTHER -> Thrown("too many fields")

\* The loop of trec_result::from, with the stream at pos.
RECURSIVE ResultFromLoop(_, _, _, _)
ResultFromLoop(line, pos, rec, fields_read) ==
    LET x == Extract(line, pos)
        r == ResultParseField(rec, x.field, fields_read)
    IN  IF ~x.ok
        THEN (IF fields_read < 6 THEN Thrown("too few fields") ELSE Returned(rec))
        ELSE IF r.err # "" THEN r
        ELSE ResultFromLoop(line, x.pos, r.value[1], fields_read + 1)

\* trec_result::from
trec_result_from(result_string) == ResultFromLoop(result_string, 1, NewResult, 0)

\* The loop of trec_rel::from, with the stream at pos.
RECURSIVE RelFromLoop(_, _, _, _)
RelFromLoop(line, pos, rec, fields_read) ==
    LET x == Extract(line, pos)
        r == RelParseField(rec, x.field, fields_read)
    IN  IF ~x.ok
        THEN (IF fields_read < 4 THEN Thrown("too few fields") ELSE Returned(rec))
        ELSE IF r.err # "" THEN r
        ELSE RelFromLoop(line, x.pos, r.value[1], fields_read + 1)

\* trec_rel::from
trec_rel_from(rel_string) == RelFromLoop(rel_string, 1, NewRel, 0)

(***************************************************************************)
(* read_trec_rels and read_trec_results.                                   *)
(***************************************************************************)
\* The first index >= i of s that holds a line feed (Len(s) + 1 if none).
RECURSIVE SkipToNewline(_, _)
SkipToNewline(s, i) ==
    IF i <= Len(s) /\ s[i] # "\n" THEN SkipToNewline(s, i + 1) ELSE i

\* std::getline(in, line) with the stream at pos: the characters up to the
\* next line feed (which is consumed) or the end of the file; it fails when
\* the stream is already at the end of the file.
Getline(file, pos) ==
    LET e == SkipToNewline(file, pos)
    IN  [ok |-> pos <= Len(file), line |-> SubSeq(file, pos, e - 1), pos |-> e + 1]

\* from() of the record kind being read.
RecordFrom(kind, l) == IF kind = "rels" THEN trec_rel_from(l) ELSE trec_result_from(l)

(***************************************************************************)
(* Maps.  A std::map or std::unordered_map is a function on its keys.      *)
(***************************************************************************)
EmptyMap == <<>>

\* map[k] = v
MapPut(m, k, v) == [x \in (DOMAIN m) \cup {k} |-> IF x = k THEN v ELSE m[x]]

\* map[k] when k may be absent: operator[] value-initialises a missing entry.
MapGet(m, k, default) == IF k \in DOMAIN m THEN m[k] ELSE default

\* The characters of the model in the order of their character codes.
CharOrder ==
    <<"\t", "\n", "\r", " ", "+", "-", ".",
      "0", "1", "2", "3", "4", "5", "6", "7", "8", "9",
      "D", "E", "F", "P", "Q", "R", "Z", "e", "i", "q", "x">>

CharRank(c) == CHOOSE i \in 1..Len(CharOrder) : CharOrder[i] = c

\* std::string operator<: lexicographic on the characters.
RECURSIVE StrLessFrom(_, _, _)
StrLessFrom(a, b, i) ==
    IF i > Len(b) THEN FALSE
    ELSE IF i > Len(a) THEN TRUE
    ELSE IF a[i] # b[i] THEN CharRank(a[i]) < CharRank(b[i])
    ELSE StrLessFrom(a, b, i + 1)

StrLess(a, b) == StrLessFrom(a, b, 1)

\* The keys of a std::map in the order its iteration visits them.
RECURSIVE SortedKeys(_)
SortedKeys(keys) ==
    IF keys = {} THEN <<>>
    ELSE LET least == CHOOSE k \in keys : \A o \in keys \ {k} : StrLess(k, o)
         IN  <<least>> \o SortedKeys(keys \ {least})

(***************************************************************************)
(* group_by_query, group, annotate_single.                                 *)
(***************************************************************************)
\* group_by_query: map[record.query_id].push_back(record), record by record.
RECURSIVE GroupByQueryLoop(_, _, _)
GroupByQueryLoop(records, i, map) ==
    IF i > Len(records) THEN map
    ELSE LET record == records[i]
         IN  GroupByQueryLoop(records, i + 1,
                MapPut(map, record.query_id,
                       Append(MapGet(map, record.query_id, <<>>), record)))

group_by_query(records) == GroupByQueryLoop(records, 1, EmptyMap)

GroupPush_EmptySlot(map, record) ==
    LET for_run == MapGet(map, record.run_id, EmptyMap)
        for_iteration == MapGet(for_run, record.iteration, EmptyMap)
        for_query == MapGet(for_iteration, record.query_id, <<>>)
        for_none == MapGet(for_iteration, <<>>, <<>>)
    IN  MapPut(map, record.run_id,
            MapPut(for_run, record.iteration,
                MapPut(MapPut(for_iteration, <<>>, for_none),
                       record.query_id, Append(for_query, record))))

GroupPush_Front(map, record) ==
    LET for_run == MapGet(map, record.run_id, EmptyMap)
        for_iteration == MapGet(for_run, record.iteration, EmptyMap)
        for_query == MapGet(for_iteration, record.query_id, <<>>)
    IN  MapPut(map, record.run_id,
            MapPut(for_run, record.iteration,
                MapPut(for_iteration, record.query_id, <<record>> \o for_query)))

\* map[record.run_id][record.iteration][record.query_id].push_back(record)
GroupPush(map, record) ==
    LET for_run == MapGet(map, record.run_id, EmptyMap)
        for_iteration == MapGet(for_run, record.iteration, EmptyMap)
        for_query == MapGet(for_iteration, record.query_id, <<>>)
    IN  MapPut(map, record.run_id,
            MapPut(for_run, record.iteration,
                MapPut(for_iteration, record.query_id, Append(for_query, record))))

RECURSIVE GroupLoop(_, _, _)
GroupLoop(records, i, map) ==
    IF i > Len(records) THEN map
    ELSE GroupLoop(records, i + 1, GroupPush(map, records[i]))

\* group
group(records) == GroupLoop(records, 1, EmptyMap)

RelMapLoop_FirstWins(rels, i, relmap) ==
    [d \in {rels[j].document_id : j \in 1..Len(rels)} |->
        rels[CHOOSE j \in 1..Len(rels) :
                /\ rels[j].document_id = d
                /\ \A k \in 1..(j - 1) : rels[k].document_id # d].relevance]

\* for (rel : rels) relmap[rel.document_id] = rel.relevance
RECURSIVE RelMapLoop(_, _, _)
RelMapLoop(rels, i, relmap) ==
    IF i > Len(rels) THEN relmap
    ELSE RelMapLoop(rels, i + 1, MapPut(relmap, rels[i].document_id, rels[i].relevance))

Lookup_Unjudged(relmap, document_id) == MapGet(relmap, document_id, -1)

\* relmap[result.document_id]
Lookup(relmap, document_id) == MapGet(relmap, document_id, 0)

annotate_single_SameIteration(results, rels) ==
    [i \in 1..Len(results) |->
        LET SameIteration(rel) == rel.iteration = results[i].iteration
            relmap == RelMapLoop(SelectSeq(rels, SameIteration), 1, EmptyMap)
        IN  [results[i] EXCEPT !.relevance = Lookup(relmap, results[i].document_id)]]

annotate_single_ClobbersRank(results, rels) ==
    LET relmap == RelMapLoop(rels, 1, EmptyMap)
    IN  [i \in 1..Len(results) |->
            [results[i] EXCEPT !.relevance = Lookup(relmap, results[i].document_id),
                               !.rank = Lookup(relmap, results[i].document_id)]]

\* annotate_single: the results with their relevance assigned
annotate_single(results, rels) ==
    LET relmap == RelMapLoop(rels, 1, EmptyMap)
    IN  [i \in 1..Len(results) |->
            [results[i] EXCEPT !.relevance = Lookup(relmap, results[i].document_id)]]

\* The (run, iteration, query) keys of a grouping in the order the three
\* nested loops of annotate visit them.
VisitQueries(map, run, iteration) ==
    LET qs == SortedKeys(DOMAIN map[run][iteration])
    IN  [i \in 1..Len(qs) |-> <<run, iteration, qs[i]>>]

RECURSIVE ConcatAll(_, _)
ConcatAll(seqs, i) == IF i > Len(seqs) THEN <<>> ELSE seqs[i] \o ConcatAll(seqs, i + 1)

VisitIterations(map, run) ==
    LET its == SortedKeys(DOMAIN map[run])
    IN  ConcatAll([i \in 1..Len(its) |-> VisitQueries(map, run, its[i])], 1)

VisitOrder(map) ==
    LET runs == SortedKeys(DOMAIN map)
    IN  ConcatAll([i \in 1..Len(runs) |-> VisitIterations(map, runs[i])], 1)

\* annotate as a function of its two arguments: the grouping of the results
\* with annotate_single applied to every innermost list and the judgments
\* grouped under its query (none: an empty list).
annotate(results, rels) ==
    LET grouped == group(results)
        rels_by_query == group_by_query(rels)
    IN  [run \in DOMAIN grouped |->
            [iteration \in DOMAIN grouped[run] |->
                [query \in DOMAIN grouped[run][iteration] |->
                    annotate_single(grouped[run][iteration][query],
                                    MapGet(rels_by_query, query, <<>>))]]]

(***************************************************************************)
(* Metric names (tools/irm.cpp and irm.hpp).                               *)
(***************************************************************************)
\* std::from_chars(first, last, value) for int, base 10: an optional minus
\* sign (no plus sign, no leading whitespace) and the longest run of digits.
\* ptr is the index of the first character not consumed (Len(s) + 1 for
\* last).  No digit: ptr = first and ec = invalid_argument; a value outside
\* int: ptr is past the digits and ec = result_out_of_range.  In both error
\* cases value is not written (set |-> FALSE).
FromChars(s) ==
    LET minus == Len(s) >= 1 /\ s[1] = "-"
        b == IF minus THEN 2 ELSE 1
        e == SkipDigits(s, b)
        neg == NegDigits(s, b, e, 0)
    IN  IF e = b
        THEN [ptr |-> 1, ec |-> "invalid_argument", set |-> FALSE, val |-> 0]
        ELSE IF neg = 1 \/ (~minus /\ neg = INT_MIN)
        THEN [ptr |-> e, ec |-> "result_out_of_range", set |-> FALSE, val |-> 0]
        ELSE [ptr |-> e, ec |-> "", set |-> TRUE, val |-> IF minus THEN neg ELSE -neg]

\* Values an int that was declared without an initialiser and never written
\* may be read as: a negative number, numbers of the range [0, 100] and a
\* number above it.
IndeterminateInts == {-1, 0, 1, 101}

\* `int parsed; from_chars(..., parsed);` then a read of parsed.
ParsedValues(res) == IF res.set THEN {res.val} ELSE IndeterminateInts

\* The call irm::precision_at(k): std::vector<double>(k, 1.0 / k) converts a
\* negative k to a size above max_size() and throws std::length_error.
MakePrecisionAt(k) ==
    IF k < 0 THEN Thrown("std::length_error") ELSE Returned(precision_at(k))

\* name.substr(pos, count)
Substr(name, pos, count) == SubSeq(name, pos + 1, Min(pos + count, Len(name)))

\* name.substr(pos, npos)
SubstrFrom(name, pos) == SubSeq(name, pos + 1, Len(name))

\* parse_precision_at of tools/irm.cpp: the set of outcomes of the call.  The
\* messages of the model leave out the argument the source appends.
parse_precision_at(k) ==
    LET res == FromChars(k)
    IN  IF res.ptr # Len(k) + 1
        THEN {Thrown("Failed to parse P@")}
        ELSE {MakePrecisionAt(parsed_k) : parsed_k \in ParsedValues(res)}

\* parse_rbp of tools/irm.cpp: the set of outcomes of the call.
parse_rbp(p) ==
    LET res == FromChars(p)
    IN  IF res.ptr # Len(p) + 1
        THEN {Thrown("Failed to parse RBP:")}
        ELSE { IF parsed_p < 0 \/ parsed_p > 100
               THEN Thrown("Failed to parse RBP: (p must be in [0, 100]%)")
               ELSE Returned(rank_biased_precision(Rat(parsed_p, 100))) :
               parsed_p \in ParsedValues(res) }

\* parse_metric of tools/irm.cpp, the function main applies to every name.
parse_metric(name) ==
    IF Substr(name, 0, 2) = <<"P", "@">> THEN parse_precision_at(SubstrFrom(name, 2))
    ELSE IF Substr(name, 0, 4) = <<"R", "B", "P", ":">> THEN parse_rbp(SubstrFrom(name, 4))
    ELSE {Thrown("Unrecognized metric: ")}

\* irm::parse_precision_at of irm.hpp: std::stoi and the construction of the
\* metric are both inside the try block, and every exception becomes the
\* parse error.
irm_parse_precision_at(k) ==
    IF Stoi(k).ok /\ MakePrecisionAt(Stoi(k).val).err = ""
    THEN MakePrecisionAt(Stoi(k).val)
    ELSE Thrown("Failed to parse P@")

\* irm::parse_rbp of irm.hpp
irm_parse_rbp(p) ==
    IF ~Stoi(p).ok THEN Thrown("Failed to parse RBP:")
    ELSE IF Stoi(p).val < 0 \/ Stoi(p).val > 100
    THEN Thrown("Failed to parse RBP: (p must be in [0, 100]%)")
    ELSE Returned(rank_biased_precision(Rat(Stoi(p).val, 100)))

\* irm::parse_metric of irm.hpp
irm_parse_metric(name) ==
    IF Substr(name, 0, 2) = <<"P", "@">> THEN irm_parse_precision_at(SubstrFrom(name, 2))
    ELSE IF Substr(name, 0, 4) = <<"R", "B", "P", ":">> THEN irm_parse_rbp(SubstrFrom(name, 4))
    ELSE Thrown("Unrecognized metric: ")

(***************************************************************************)
(* The scoring loops of main (tools/irm.cpp).                              *)
(***************************************************************************)
\* relevance_range: the relevance of every result of the list, in order.
RelevanceRange(results) == [i \in 1..Len(results) |-> results[i].relevance]

\* std::accumulate(begin, end, 0.0)
RECURSIVE Accumulate(_, _)
Accumulate(values, last) ==
    IF last = 0 THEN Zero ELSE RAdd(Accumulate(values, last - 1), values[last])

\* 0.0 / 0: not a number.
NaN == [n |-> 0, d |-> 0]

Average_Sum(values) == Accumulate(values, Len(values))

\* avg = accumulate(metric_values[m]) / metric_values[m].size()
Average(values) ==
    IF Len(values) = 0 THEN NaN
    ELSE LET sum == Accumulate(values, Len(values))
         IN  Rat(sum.n, sum.d * Len(values))

\* The (run_id, iteration) keys in the order the two outer loops visit them.
PairsOfRun(map, run) ==
    LET its == SortedKeys(DOMAIN map[run])
    IN  [i \in 1..Len(its) |-> <<run, its[i]>>]

PairsOf(map) ==
    LET runs == SortedKeys(DOMAIN map)
    IN  ConcatAll([i \in 1..Len(runs) |-> PairsOfRun(map, runs[i])], 1)

\* The queries of a pair in the order the inner loop visits them.
QueriesOf(map, pair) == SortedKeys(DOMAIN map[pair[1]][pair[2]])

\* std::vector<std::vector<double>> metric_values(metrics.size())
NoValues(names) == [m \in 1..Len(names) |-> <<>>]

(***************************************************************************)
(* Inputs.                                                                 *)
(***************************************************************************)
RelValues == {-1, 0, 1, 2}

\* The relevance vectors of tests/test_precision.cpp.
TestBinary == <<1, 1, 1, 0, 0, 1, 0>>
TestGraded == <<1, 2, 1, -1, 0, 1, -2>>

RelSeqs ==
    UNION {[1..n -> RelValues] : n \in 0..MaxLen} \cup {TestBinary, TestGraded}

\* Persistence values: tenths in [0, 1].
Persistences == {Rat(t, 10) : t \in 0..10}

\* Hand-built weight vectors for the generic weighted_precision.
CustomVectors ==
    { <<>>,
      <<Rat(1, 2)>>,
      <<Rat(1, 2), Rat(1, 3)>>,
      <<One, Rat(1, 2), Rat(1, 4), Rat(1, 8)>> }

Metrics ==
    {precision_at(k) : k \in 1..MaxK}
    \cup {rank_biased_precision(p) : p \in Persistences}
    \cup {weighted_precision(VectorWeights(w), c, t) :
            w \in CustomVectors, c \in 0..MaxCutoff, t \in {"identity", "binary"}}
    \cup {weighted_precision(VectorWeights(w), INT_MAX, "identity") : w \in CustomVectors}
    \cup {weighted_precision(SeriesWeights(Rat(1, 2)), c, "identity") : c \in 0..MaxCutoff}

(***************************************************************************)
(* Actions of one evaluation.                                              *)
(***************************************************************************)
EvInit ==
    /\ metric = precision_at(1)
    /\ relevance = <<>>
    /\ ev_pc = "idle"
    /\ ev_cutoff = 0
    /\ ev_it = 0
    /\ ev_acc = Zero
    /\ ev_visited = <<>>
    /\ ev_fault = FALSE

\* operator()(first, last): the cutoff is computed, inner_product starts at 0.0
EvalBegin ==
    /\ ev_pc = "idle"
    /\ \E m \in Metrics, r \in RelSeqs :
         /\ metric' = m
         /\ relevance' = r
         /\ ev_cutoff' = EffectiveCutoff(m, Len(r))
    /\ ev_pc' = "sum"
    /\ ev_it' = 0
    /\ ev_acc' = Zero
    /\ ev_visited' = <<>>
    /\ ev_fault' = FALSE
    /\ UNCHANGED evOthers

\* one iteration of std::inner_product: init = init + op2(*first1, *first2)
InnerProductStep ==
    /\ ev_pc = "sum"
    /\ ev_it < ev_cutoff
    /\ LET ok == WeightInRange(metric.weights, ev_it) /\ ev_it < Len(relevance)
       IN  /\ ev_fault' = (ev_fault \/ ~ok)
           /\ ev_acc' = IF ok THEN RAdd(ev_acc, Term(metric, relevance, ev_it)) ELSE ev_acc
    /\ ev_visited' = Append(ev_visited, ev_it)
    /\ ev_it' = ev_it + 1
    /\ UNCHANGED <<metric, relevance, ev_pc, ev_cutoff>>
    /\ UNCHANGED evOthers

\* first1 == last1: inner_product returns the accumulator
InnerProductEnd ==
    /\ ev_pc = "sum"
    /\ ev_it >= ev_cutoff
    /\ ev_pc' = "done"
    /\ UNCHANGED <<metric, relevance, ev_cutoff, ev_it, ev_acc, ev_visited, ev_fault>>
    /\ UNCHANGED evOthers

(***************************************************************************)
(* Lines handed to from().                                                 *)
(***************************************************************************)
\* Tokens for the integer fields, with what each one is: int says the whole
\* token is a decimal integer, fits that its value is in the range of int,
\* val is that value.
IntTokens ==
    { [tok |-> <<"0">>, int |-> TRUE, fits |-> TRUE, val |-> 0],
      [tok |-> <<"2">>, int |-> TRUE, fits |-> TRUE, val |-> 2],
      [tok |-> <<"1", "2">>, int |-> TRUE, fits |-> TRUE, val |-> 12],
      [tok |-> <<"-", "1">>, int |-> TRUE, fits |-> TRUE, val |-> -1],
      [tok |-> <<"+", "5">>, int |-> TRUE, fits |-> TRUE, val |-> 5],
      [tok |-> <<"0", "0", "7">>, int |-> TRUE, fits |-> TRUE, val |-> 7],
      [tok |-> <<"2", "1", "4", "7", "4", "8", "3", "6", "4", "7">>,
       int |-> TRUE, fits |-> TRUE, val |-> INT_MAX],
      [tok |-> <<"-", "2", "1", "4", "7", "4", "8", "3", "6", "4", "8">>,
       int |-> TRUE, fits |-> TRUE, val |-> INT_MIN],
      [tok |-> <<"2", "1", "4", "7", "4", "8", "3", "6", "4", "8">>,
       int |-> TRUE, fits |-> FALSE, val |-> 0],
      [tok |-> <<"x", "1">>, int |-> FALSE, fits |-> FALSE, val |-> 0],
      [tok |-> <<"1", "x">>, int |-> FALSE, fits |-> FALSE, val |-> 0],
      [tok |-> <<"1", ".", "5">>, int |-> FALSE, fits |-> FALSE, val |-> 0],
      [tok |-> <<"-">>, int |-> FALSE, fits |-> FALSE, val |-> 0] }

\* Tokens for the score field: real says the whole token is a decimal real
\* number, val is its value.
RealTokens ==
    { [tok |-> <<"4", "2", "3", "8">>, real |-> TRUE, val |-> FromInt(4238)],
      [tok |-> <<"1", ".", "5">>, real |-> TRUE, val |-> Rat(3, 2)],
      [tok |-> <<"-", "0", ".", "2", "5">>, real |-> TRUE, val |-> Rat(-1, 4)],
      [tok |-> <<".", "5">>, real |-> TRUE, val |-> Rat(1, 2)],
      [tok |-> <<"5", ".">>, real |-> TRUE, val |-> FromInt(5)],
      [tok |-> <<"1", "e", "2">>, real |-> TRUE, val |-> FromInt(100)],
      [tok |-> <<"2", "E", "-", "1">>, real |-> TRUE, val |-> Rat(1, 5)],
      [tok |-> <<"x">>, real |-> FALSE, val |-> Zero],
      [tok |-> <<"1", ".", "5", "x">>, real |-> FALSE, val |-> Zero],
      [tok |-> <<"1", "e">>, real |-> FALSE, val |-> Zero],
      [tok |-> <<".">>, real |-> FALSE, val |-> Zero],
      [tok |-> <<"-">>, real |-> FALSE, val |-> Zero] }

IntToken(t) == CHOOSE e \in IntTokens : e.tok = t
RealToken(t) == CHOOSE e \in RealTokens : e.tok = t

QueryTokens == { <<"0", "3", "0">>, <<"q", "0">> }
IterationToken == <<"Q", "0">>
DocumentToken == <<"Z", "F", "-", "1">>
RunToken == <<"R", "0">>
ExtraToken == <<"x">>

\* The first n of toks, followed by extra tokens when n > Len(toks).
TakeFields(toks, n) ==
    [i \in 1..n |-> IF i <= Len(toks) THEN toks[i] ELSE ExtraToken]

ResultTokenLists ==
    { TakeFields(<<q, IterationToken, DocumentToken, r.tok, s.tok, RunToken>>, n) :
        q \in QueryTokens, r \in IntTokens, s \in RealTokens, n \in 0..MaxFields }

RelTokenLists ==
    { TakeFields(<<q, IterationToken, DocumentToken, r.tok>>, n) :
        q \in QueryTokens, r \in IntTokens, n \in 0..MaxFields }

\* How a line is laid out: what precedes, separates and follows its tokens.
Layouts ==
    { [lead |-> <<>>, sep |-> <<" ">>, trail |-> <<>>],
      [lead |-> <<>>, sep |-> <<"\t">>, trail |-> <<"\r">>],
      [lead |-> <<" ">>, sep |-> <<" ", " ">>, trail |-> <<" ">>],
      [lead |-> <<>>, sep |-> <<" ", "\t">>, trail |-> <<>>] }

RECURSIVE JoinFrom(_, _, _)
JoinFrom(toks, i, sep) ==
    IF i > Len(toks) THEN <<>>
    ELSE (IF i > 1 THEN sep ELSE <<>>) \o toks[i] \o JoinFrom(toks, i + 1, sep)

Join(toks, layout) == layout.lead \o JoinFrom(toks, 1, layout.sep) \o layout.trail

(***************************************************************************)
(* Actions of one call of from().                                          *)
(***************************************************************************)
PrInit ==
    /\ pr_pc = "idle"
    /\ pr_tokens = <<>>
    /\ pr_line = <<>>
    /\ parsed = [err |-> "", value |-> <<>>]   \* no call yet

\* trec_result::from(line)
ParseResult ==
    /\ pr_pc = "idle"
    /\ \E toks \in ResultTokenLists, layout \in Layouts :
         /\ pr_tokens' = toks
         /\ pr_line' = Join(toks, layout)
         /\ parsed' = trec_result_from(Join(toks, layout))
    /\ pr_pc' = "result"
    /\ UNCHANGED prOthers

\* trec_rel::from(line)
ParseRel ==
    /\ pr_pc = "idle"
    /\ \E toks \in RelTokenLists, layout \in Layouts :
         /\ pr_tokens' = toks
         /\ pr_line' = Join(toks, layout)
         /\ parsed' = trec_rel_from(Join(toks, layout))
    /\ pr_pc' = "rel"
    /\ UNCHANGED prOthers

(***************************************************************************)
(* Files.                                                                  *)
(***************************************************************************)
Tok_q0 == <<"q", "0">>
Tok_q1 == <<"q", "1">>
Tok_i0 == <<"i", "0">>
Tok_D1 == <<"D", "1">>
Tok_D2 == <<"D", "2">>
Tok_R0 == <<"R", "0">>

PlainLayout == [lead |-> <<>>, sep |-> <<" ">>, trail |-> <<>>]
TabLayout == [lead |-> <<>>, sep |-> <<"\t">>, trail |-> <<"\r">>]

EmptyLine == <<>>
BlankLine == <<" ">>

\* Judgment lines: two valid, the empty line, one of blanks, one with 3 fields.
RelFileLines ==
    { Join(<<Tok_q0, Tok_i0, Tok_D1, <<"2">>>>, PlainLayout),
      Join(<<Tok_q1, Tok_i0, Tok_D2, <<"0">>>>, TabLayout),
      EmptyLine,
      BlankLine,
      Join(<<Tok_q0, Tok_i0, Tok_D1>>, PlainLayout) }

\* Results lines: two valid, the empty line, one of blanks, one with 7 fields.
ResultFileLines ==
    { Join(<<Tok_q0, Tok_i0, Tok_D1, <<"0">>, <<"1", ".", "5">>, Tok_R0>>, PlainLayout),
      Join(<<Tok_q1, Tok_i0, Tok_D2, <<"1">>, <<"4", "2">>, Tok_R0>>, TabLayout),
      EmptyLine,
      BlankLine,
      Join(<<Tok_q0, Tok_i0, Tok_D1, <<"0">>, <<"1">>, Tok_R0, <<"x">>>>, PlainLayout) }

FileLines(kind) == IF kind = "rels" THEN RelFileLines ELSE ResultFileLines

\* The file of the given lines: a line feed between two lines, and one after
\* the last line when terminated.
RECURSIVE FileFrom(_, _, _)
FileFrom(ls, i, terminated) ==
    IF i > Len(ls) THEN <<>>
    ELSE ls[i] \o (IF i < Len(ls) \/ terminated THEN <<"\n">> ELSE <<>>)
               \o FileFrom(ls, i + 1, terminated)

(***************************************************************************)
(* Actions of one read of a file.                                          *)
(***************************************************************************)
RdInit ==
    /\ rd_pc = "idle"
    /\ rd_kind = "rels"
    /\ rd_lines = <<>>
    /\ rd_file = <<>>
    /\ rd_pos = 1
    /\ rd_out = <<>>
    /\ rd_err = ""

\* read_trec_rels(filename) / read_trec_results(filename): the vector is
\* empty and the stream is at the start of the file
ReadBegin ==
    /\ rd_pc = "idle"
    /\ \E kind \in {"rels", "results"}, n \in 0..MaxLines, terminated \in BOOLEAN :
         \E ls \in [1..n -> FileLines(kind)] :
            /\ rd_kind' = kind
            /\ rd_lines' = ls
            /\ rd_file' = FileFrom(ls, 1, terminated)
    /\ rd_pc' = "reading"
    /\ rd_pos' = 1
    /\ rd_out' = <<>>
    /\ rd_err' = ""
    /\ UNCHANGED rdOthers

\* while (std::getline(in, line)) push_back(from(line)): from() returned
ReadLine ==
    /\ rd_pc = "reading"
    /\ Getline(rd_file, rd_pos).ok
    /\ RecordFrom(rd_kind, Getline(rd_file, rd_pos).line).err = ""
    /\ rd_out' = Append(rd_out, RecordFrom(rd_kind, Getline(rd_file, rd_pos).line).value[1])
    /\ rd_pos' = Getline(rd_file, rd_pos).pos
    /\ UNCHANGED <<rd_pc, rd_kind, rd_lines, rd_file, rd_err>>
    /\ UNCHANGED rdOthers

\* from() threw: the exception leaves the function, the vector is destroyed
ReadLineThrows ==
    /\ rd_pc = "reading"
    /\ Getline(rd_file, rd_pos).ok
    /\ RecordFrom(rd_kind, Getline(rd_file, rd_pos).line).err # ""
    /\ rd_err' = RecordFrom(rd_kind, Getline(rd_file, rd_pos).line).err
    /\ rd_out' = <<>>
    /\ rd_pc' = "failed"
    /\ rd_pos' = Getline(rd_file, rd_pos).pos
    /\ UNCHANGED <<rd_kind, rd_lines, rd_file>>
    /\ UNCHANGED rdOthers

\* getline failed at the end of the file: the vector is returned
ReadEnd ==
    /\ rd_pc = "reading"
    /\ ~Getline(rd_file, rd_pos).ok
    /\ rd_pc' = "returned"
    /\ UNCHANGED <<rd_kind, rd_lines, rd_file, rd_pos, rd_out, rd_err>>
    /\ UNCHANGED rdOthers

(***************************************************************************)
(* Records handed to annotate.                                             *)
(***************************************************************************)
Tok_i1 == <<"i", "1">>
Tok_R1 == <<"R", "1">>

\* A parsed results line: relevance is still the default 0.
Result(run_id, iteration, query_id, document_id) ==
    [query_id |-> query_id, iteration |-> iteration, document_id |-> document_id,
     rank |-> 0, score |-> Rat(3, 2), run_id |-> run_id, relevance |-> 0]

Rel(query_id, iteration, document_id, rel) ==
    [query_id |-> query_id, iteration |-> iteration, document_id |-> document_id,
     relevance |-> rel]

ResultRecords ==
    { Result(Tok_R0, Tok_i0, Tok_q0, Tok_D1),
      Result(Tok_R0, Tok_i0, Tok_q0, Tok_D2),
      Result(Tok_R0, Tok_i0, Tok_q1, Tok_D1),
      Result(Tok_R0, Tok_i1, Tok_q0, Tok_D1),
      Result(Tok_R1, Tok_i0, Tok_q0, Tok_D2) }

RelRecords ==
    { Rel(Tok_q0, Tok_i0, Tok_D1, 2),
      Rel(Tok_q0, Tok_i1, Tok_D1, 1),
      Rel(Tok_q0, Tok_i0, Tok_D1, 0),
      Rel(Tok_q0, Tok_i0, Tok_D2, 1),
      Rel(Tok_q1, Tok_i0, Tok_D1, 3) }

\* What may follow "P@" or "RBP:" in a metric name: int says the whole of arg
\* is a decimal integer (digits, or a minus sign and digits), fits that its
\* value is in the range of int, val is that value.
MetricArgs ==
    { [arg |-> <<>>, int |-> FALSE, fits |-> FALSE, val |-> 0],
      [arg |-> <<"0">>, int |-> TRUE, fits |-> TRUE, val |-> 0],
      [arg |-> <<"1">>, int |-> TRUE, fits |-> TRUE, val |-> 1],
      [arg |-> <<"2">>, int |-> TRUE, fits |-> TRUE, val |-> 2],
      [arg |-> <<"0", "0", "7">>, int |-> TRUE, fits |-> TRUE, val |-> 7],
      [arg |-> <<"1", "0">>, int |-> TRUE, fits |-> TRUE, val |-> 10],
      [arg |-> <<"5", "0">>, int |-> TRUE, fits |-> TRUE, val |-> 50],
      [arg |-> <<"9", "5">>, int |-> TRUE, fits |-> TRUE, val |-> 95],
      [arg |-> <<"1", "0", "0">>, int |-> TRUE, fits |-> TRUE, val |-> 100],
      [arg |-> <<"1", "0", "1">>, int |-> TRUE, fits |-> TRUE, val |-> 101],
      [arg |-> <<"-", "1">>, int |-> TRUE, fits |-> TRUE, val |-> -1],
      [arg |-> <<"-", "5">>, int |-> TRUE, fits |-> TRUE, val |-> -5],
      [arg |-> <<"9", "9", "9", "9", "9", "9", "9", "9", "9", "9", "9">>,
       int |-> TRUE, fits |-> FALSE, val |-> 0],
      [arg |-> <<"x">>, int |-> FALSE, fits |-> FALSE, val |-> 0],
      [arg |-> <<"1", "x">>, int |-> FALSE, fits |-> FALSE, val |-> 0],
      [arg |-> <<"x", "1">>, int |-> FALSE, fits |-> FALSE, val |-> 0],
      [arg |-> <<"1", ".", "5">>, int |-> FALSE, fits |-> FALSE, val |-> 0],
      [arg |-> <<"-">>, int |-> FALSE, fits |-> FALSE, val |-> 0] }

MetricArg(a) == CHOOSE e \in MetricArgs : e.arg = a

Prefix_P == <<"P", "@">>
Prefix_RBP == <<"R", "B", "P", ":">>

\* What a metric name may start with: the two prefixes of the mini-language
\* and strings that are neither.
MetricPrefixes ==
    { Prefix_P, Prefix_RBP,
      <<>>, <<"P">>, <<"p", "@">>, <<"R", "B", "P">>, <<"N", "D", "C", "G", "@">> }

(***************************************************************************)
(* Actions of one call of parse_metric.                                    *)
(***************************************************************************)
MpInit ==
    /\ mp_pc = "idle"
    /\ mp_prefix = <<>>
    /\ mp_arg = <<>>
    /\ mp_out = [err |-> "", value |-> <<>>]   \* no call yet

\* parse_metric(name) of tools/irm.cpp
ParseMetricName ==
    /\ mp_pc = "idle"
    /\ \E prefix \in MetricPrefixes, a \in MetricArgs :
         /\ mp_prefix' = prefix
         /\ mp_arg' = a.arg
         /\ mp_out' \in parse_metric(prefix \o a.arg)
    /\ mp_pc' = "tool"
    /\ UNCHANGED mpOthers

\* irm::parse_metric(name) of irm.hpp
IrmParseMetricName ==
    /\ mp_pc = "idle"
    /\ \E prefix \in MetricPrefixes, a \in MetricArgs :
         /\ mp_prefix' = prefix
         /\ mp_arg' = a.arg
         /\ mp_out' = irm_parse_metric(prefix \o a.arg)
    /\ mp_pc' = "header"
    /\ UNCHANGED mpOthers

(***************************************************************************)
(* Actions of one call of annotate.                                        *)
(***************************************************************************)
AnInit ==
    /\ an_pc = "idle"
    /\ an_results = <<>>
    /\ an_rels = <<>>
    /\ grouped_results = EmptyMap
    /\ grouped_rels = EmptyMap
    /\ an_todo = <<>>
    /\ an_writes = <<>>

\* annotate(results, rels) is called
AnnotateBegin ==
    /\ an_pc = "idle"
    /\ \E n \in 0..MaxResults, k \in 0..MaxRels :
         \E rs \in [1..n -> ResultRecords], js \in [1..k -> RelRecords] :
            /\ an_results' = rs
            /\ an_rels' = js
    /\ an_pc' = "called"
    /\ UNCHANGED <<grouped_results, grouped_rels, an_todo, an_writes>>
    /\ UNCHANGED anOthers

\* auto grouped_results = group(results);
Group ==
    /\ an_pc = "called"
    /\ grouped_results' = group(an_results)
    /\ an_pc' = "grouped"
    /\ UNCHANGED <<an_results, an_rels, grouped_rels, an_todo, an_writes>>
    /\ UNCHANGED anOthers

\* auto grouped_rels = group_by_query(rels); the loops start
GroupByQuery ==
    /\ an_pc = "grouped"
    /\ grouped_rels' = group_by_query(an_rels)
    /\ an_todo' = VisitOrder(grouped_results)
    /\ an_pc' = "annotating"
    /\ UNCHANGED <<an_results, an_rels, grouped_results, an_writes>>
    /\ UNCHANGED anOthers

\* annotate_single(results_for_query, grouped_rels[query]) for the next key;
\* grouped_rels[query] inserts an empty vector for a query without judgments
AnnotateSingle ==
    /\ an_pc = "annotating"
    /\ an_todo # <<>>
    /\ LET run == an_todo[1][1]
           iteration == an_todo[1][2]
           query == an_todo[1][3]
           rels == MapGet(grouped_rels, query, <<>>)
           annotated == annotate_single(grouped_results[run][iteration][query], rels)
       IN  /\ grouped_rels' = MapPut(grouped_rels, query, rels)
           /\ grouped_results' =
                [grouped_results EXCEPT ![run][iteration][query] = annotated]
           /\ an_writes' = an_writes \o
                [i \in 1..Len(annotated) |-> <<run, iteration, query, i>>]
    /\ an_todo' = Tail(an_todo)
    /\ UNCHANGED <<an_pc, an_results, an_rels>>
    /\ UNCHANGED anOthers

\* return grouped_results;
AnnotateReturn ==
    /\ an_pc = "annotating"
    /\ an_todo = <<>>
    /\ an_pc' = "returned"
    /\ UNCHANGED <<an_results, an_rels, grouped_results, grouped_rels, an_todo, an_writes>>
    /\ UNCHANGED anOthers

(***************************************************************************)
(* Inputs of main.                                                         *)
(***************************************************************************)
Name_P(arg) == Prefix_P \o arg
Name_RBP(arg) == Prefix_RBP \o arg

\* The metric lists handed to main: valid names in both orders, and lists
\* with a name outside the mini-language first or last.
MetricLists ==
    { <<>>,
      <<Name_P(<<"1">>)>>,
      <<Name_P(<<"2">>), Name_RBP(<<"5", "0">>)>>,
      <<Name_RBP(<<"5", "0">>), Name_P(<<"2">>)>>,
      <<Name_P(<<"0">>), Name_RBP(<<"1", "0", "0">>), Name_RBP(<<"0">>)>>,
      <<Name_P(<<"x">>), Name_P(<<"1">>)>>,
      <<Name_P(<<"1">>), Name_RBP(<<"1", "0", "1">>)>>,
      <<Name_P(<<"2">>), <<"N", "D", "C", "G", "@">> \o <<"1">>>>,
      <<Name_P(<<"1">>), Name_P(<<"-", "1">>)>>,
      <<Name_P(<<"1">>), Name_P(<<>>)>>,
      <<Name_RBP(<<>>), Name_P(<<"1">>)>> }

\* The judgment lists handed to main.
MainRelLists ==
    { <<>>,
      <<Rel(Tok_q0, Tok_i0, Tok_D1, 2)>>,
      <<Rel(Tok_q0, Tok_i0, Tok_D1, 1), Rel(Tok_q1, Tok_i0, Tok_D1, 3),
        Rel(Tok_q0, Tok_i1, Tok_D2, -1)>> }

(***************************************************************************)
(* Actions of one run of main, from the point both files were read.        *)
(***************************************************************************)
\* qrels and results were read; metrics holds the names of the command line
MainBegin ==
    /\ mn_pc = "idle"
    /\ an_pc = "idle"
    /\ \E n \in 0..MaxResults :
         \E rs \in [1..n -> ResultRecords], js \in MainRelLists, names \in MetricLists :
            /\ an_results' = rs
            /\ an_rels' = js
            /\ metrics' = names
    /\ mn_pc' = "parsing"
    /\ UNCHANGED <<an_pc, grouped_results, grouped_rels, an_todo, an_writes>>
    /\ UNCHANGED <<metric_functions, mn_err, mn_pairs, mn_queries, metric_values,
                   mn_scored, mn_divisors, output>>
    /\ UNCHANGED mnOthers

\* std::transform(..., parse_metric): the next name is parsed; an exception
\* leaves main, which nothing catches
TransformStep ==
    /\ mn_pc = "parsing"
    /\ Len(metric_functions) < Len(metrics)
    /\ \E o \in parse_metric(metrics[Len(metric_functions) + 1]) :
         IF o.err = ""
         THEN /\ metric_functions' = Append(metric_functions, o.value[1])
              /\ UNCHANGED <<mn_pc, mn_err>>
         ELSE /\ mn_pc' = "terminated"
              /\ mn_err' = o.err
              /\ UNCHANGED metric_functions
    /\ UNCHANGED <<metrics, mn_pairs, mn_queries, metric_values, mn_scored,
                   mn_divisors, output>>
    /\ UNCHANGED anVars
    /\ UNCHANGED mnOthers

\* auto annotated = irm::annotate(results, qrels): the call
MainCallAnnotate ==
    /\ mn_pc = "parsing"
    /\ Len(metric_functions) = Len(metrics)
    /\ an_pc = "idle"
    /\ mn_pc' = "annotate"
    /\ an_pc' = "called"
    /\ UNCHANGED <<an_results, an_rels, grouped_results, grouped_rels, an_todo, an_writes>>
    /\ UNCHANGED <<metrics, metric_functions, mn_err, mn_pairs, mn_queries,
                   metric_values, mn_scored, mn_divisors, output>>
    /\ UNCHANGED mnOthers

\* annotate returned: the outer loops start, metric_values is built for the
\* first (run_id, iteration)
MainLoopBegin ==
    /\ mn_pc = "annotate"
    /\ an_pc = "returned"
    /\ mn_pc' = "scoring"
    /\ mn_pairs' = PairsOf(grouped_results)
    /\ mn_queries' = IF mn_pairs' = <<>> THEN <<>>
                     ELSE QueriesOf(grouped_results, mn_pairs'[1])
    /\ metric_values' = NoValues(metrics)
    /\ UNCHANGED <<metrics, metric_functions, mn_err, mn_scored, mn_divisors, output>>
    /\ UNCHANGED anVars
    /\ UNCHANGED mnOthers

\* one pass of the loop over the queries of the pair: relevance_range is
\* built and every metric scores it
ScoreQuery ==
    /\ mn_pc = "scoring"
    /\ mn_pairs # <<>>
    /\ mn_queries # <<>>
    /\ LET run_id == mn_pairs[1][1]
           iteration == mn_pairs[1][2]
           query == mn_queries[1]
           relevance_range == RelevanceRange(grouped_results[run_id][iteration][query])
       IN  /\ metric_values' =
                [m \in 1..Len(metrics) |->
                    Append(metric_values[m], Evaluate(metric_functions[m], relevance_range))]
           /\ mn_scored' = Append(mn_scored, <<run_id, iteration, query, relevance_range>>)
    /\ mn_queries' = Tail(mn_queries)
    /\ UNCHANGED <<mn_pc, metrics, metric_functions, mn_err, mn_pairs, mn_divisors, output>>
    /\ UNCHANGED anVars
    /\ UNCHANGED mnOthers

\* the loop over the metrics that averages and prints, then the next pair
EmitLines ==
    /\ mn_pc = "scoring"
    /\ mn_pairs # <<>>
    /\ mn_queries = <<>>
    /\ output' = output \o
         [m \in 1..Len(metrics) |->
             [run_id |-> mn_pairs[1][1], iteration |-> mn_pairs[1][2],
              metric |-> metrics[m], avg |-> Average(metric_values[m])]]
    /\ mn_divisors' = mn_divisors \o [m \in 1..Len(metrics) |-> Len(metric_values[m])]
    /\ mn_pairs' = Tail(mn_pairs)
    /\ mn_queries' = IF mn_pairs' = <<>> THEN <<>>
                     ELSE QueriesOf(grouped_results, mn_pairs'[1])
    /\ metric_values' = NoValues(metrics)
    /\ UNCHANGED <<mn_pc, metrics, metric_functions, mn_err, mn_scored>>
    /\ UNCHANGED anVars
    /\ UNCHANGED mnOthers

\* return 0;
MainReturn ==
    /\ mn_pc = "scoring"
    /\ mn_pairs = <<>>
    /\ mn_pc' = "done"
    /\ UNCHANGED <<metrics, metric_functions, mn_err, mn_pairs, mn_queries,
                   metric_values, mn_scored, mn_divisors, output>>
    /\ UNCHANGED anVars
    /\ UNCHANGED mnOthers

(***************************************************************************)
(* Specifications.                                                         *)
(***************************************************************************)
MnInit ==
    /\ mn_pc = "idle"
    /\ metrics = <<>>
    /\ metric_functions = <<>>
    /\ mn_err = ""
    /\ mn_pairs = <<>>
    /\ mn_queries = <<>>
    /\ metric_values = <<>>
    /\ mn_scored = <<>>
    /\ mn_divisors = <<>>
    /\ output = <<>>

Init == EvInit /\ PrInit /\ RdInit /\ AnInit /\ MpInit /\ MnInit

EvNext == EvalBegin \/ InnerProductStep \/ InnerProductEnd

\* Evaluations of a metric on a relevance sequence.
SpecMetric == Init /\ [][EvNext]_vars

PrNext == ParseResult \/ ParseRel

\* Calls of trec_result::from and trec_rel::from on a line.
SpecParse == Init /\ [][PrNext]_vars

RdNext == ReadBegin \/ ReadLine \/ ReadLineThrows \/ ReadEnd

\* Reads of a judgment file and of a results file.
SpecRead == Init /\ [][RdNext]_vars

\* main with the steps of the call of annotate it makes.
MnNext ==
    \/ MainBegin \/ TransformStep \/ MainCallAnnotate
    \/ Group \/ GroupByQuery \/ AnnotateSingle \/ AnnotateReturn
    \/ MainLoopBegin \/ ScoreQuery \/ EmitLines \/ MainReturn
SpecMain == Init /\ [][MnNext]_vars

MpNext == ParseMetricName \/ IrmParseMetricName
SpecMetricName == Init /\ [][MpNext]_vars

AnNext == AnnotateBegin \/ Group \/ GroupByQuery \/ AnnotateSingle \/ AnnotateReturn

\* Calls of annotate on a results vector and a rels vector.
SpecAnnotate == Init /\ [][AnNext]_vars

(***************************************************************************)
(* Properties of the metrics.                                              *)
(***************************************************************************)
\* The number of positions i <= m (1-based) with r[i] > 0.
CountPositive(r, m) == Cardinality({i \in 1..m : r[i] > 0})

Binarised(r) == [i \in 1..Len(r) |-> IF r[i] > 0 THEN 1 ELSE 0]

\* C1: for every k >= 1 and every integer relevance sequence r of length n,
\* precision_at(k)(r) is (the number of i < min(k, n) with r[i] > 0) / k: the
\* divisor is k also when n < k, and r scores as its binarised version does.
C1_PrecisionAt ==
    \A k \in 1..MaxK :
        (ev_pc = "done" /\ metric = precision_at(k)) =>
            /\ ev_acc = Rat(CountPositive(relevance, Min(k, Len(relevance))), k)
            /\ ev_acc = Evaluate(precision_at(k), Binarised(relevance))

\* A graded sequence shorter than k was scored: 4 positives of 7, k = 8.
C1_Witness ==
    /\ ev_pc = "done"
    /\ metric = precision_at(8)
    /\ relevance = TestGraded
    /\ ev_acc = Rat(4, 8)

\* min(cutoff, n, weight sequence length), an infinite sequence being unbounded.
SpecCutoff(m, n) ==
    IF m.weights.kind = "series"
    THEN Min(m.cutoff, n)
    ELSE Min(Min(m.cutoff, n), Len(m.weights.seq))

RECURSIVE SumTerms(_, _, _)
SumTerms(m, rel, e) ==
    IF e = 0 THEN Zero
    ELSE RAdd(SumTerms(m, rel, e - 1),
              RMul(WeightAt(m.weights, e - 1),
                   FromInt(IF m.transform = "binary"
                           THEN (IF rel[e] > 0 THEN 1 ELSE 0)
                           ELSE rel[e])))

\* C2: an evaluation with cutoff >= 0 on a relevance sequence of length n
\* returns the sum over i = 0 .. e-1, in ascending order, of
\* weight(i) * transform(relevance[i]) with e = min(cutoff, n, weight length);
\* it is 0.0 when n = 0 or e = 0; it never fails and never dereferences a
\* weight or a relevance value at an index >= e.
C2_WeightedPrecision ==
    LET e == SpecCutoff(metric, Len(relevance))
    IN  /\ ~ev_fault
        /\ ev_it <= e
        /\ ev_visited = [i \in 1..ev_it |-> i - 1]
        /\ ev_pc = "done" =>
             /\ ev_it = e
             /\ ev_acc = SumTerms(metric, relevance, e)
             /\ (Len(relevance) = 0 \/ e = 0) => ev_acc = Zero

\* The weight vector is the shortest of the three limits and the sum is not 0.
C2_Witness ==
    /\ ev_pc = "done"
    /\ metric = weighted_precision(VectorWeights(<<Rat(1, 2), Rat(1, 3)>>), 3, "identity")
    /\ Len(relevance) = 3
    /\ ev_visited = <<0, 1>>
    /\ ev_acc # Zero

RECURSIVE RbpSum(_, _, _)
RbpSum(p, r, n) ==
    IF n = 0 THEN Zero
    ELSE RAdd(RbpSum(p, r, n - 1),
              IF r[n] > 0 THEN RMul(RSub(One, p), Pow(p, n - 1)) ELSE Zero)

\* C3: for every persistence p in [0, 1) and every integer relevance sequence
\* r of length n, rank_biased_precision(p)(r) is the sum over the i < n with
\* r[i] > 0 of (1 - p) * p^i; [1,1,1,0,0,1,0] with p = 0.8 gives 0.553536
\* within 1e-6; an all-zero sequence gives 0.0.
C3_RankBiasedPrecision ==
    \A p \in Persistences \ {One} :
        (ev_pc = "done" /\ metric = rank_biased_precision(p)) =>
            /\ Len(ev_visited) = Len(relevance)
            /\ ev_acc = RbpSum(p, relevance, Len(relevance))
            /\ (p = Rat(8, 10) /\ relevance = TestBinary) =>
                 RLe(RAbs(RSub(ev_acc, Rat(553536, 1000000))), Rat(1, 1000000))
            /\ (\A i \in 1..Len(relevance) : relevance[i] = 0) => ev_acc = Zero

\* The test vector was scored with p = 0.8.
C3_Witness ==
    /\ ev_pc = "done"
    /\ metric = rank_biased_precision(Rat(8, 10))
    /\ relevance = TestBinary
    /\ ev_acc = Rat(553536, 1000000)

(***************************************************************************)
(* Properties of the record parsers.                                       *)
(***************************************************************************)
\* The i-th token the caller wrote (1-based), present or not.
HasToken(i) == Len(pr_tokens) >= i

\* The whole of the i-th token is a decimal integer / one in the range of
\* int / a decimal real number.
TokenIsInt(i) == IntToken(pr_tokens[i]).int
TokenFitsInt(i) == IntToken(pr_tokens[i]).int /\ IntToken(pr_tokens[i]).fits
TokenIsReal(i) == RealToken(pr_tokens[i]).real

\* The record returned carries the six (four) tokens.
ResultCarriesTokens ==
    /\ parsed.err = ""
    /\ Len(parsed.value) = 1
    /\ parsed.value[1].query_id = pr_tokens[1]
    /\ parsed.value[1].iteration = pr_tokens[2]
    /\ parsed.value[1].document_id = pr_tokens[3]
    /\ parsed.value[1].rank = IntToken(pr_tokens[4]).val
    /\ parsed.value[1].score = RealToken(pr_tokens[5]).val
    /\ parsed.value[1].run_id = pr_tokens[6]
    /\ parsed.value[1].relevance = 0

RelCarriesTokens ==
    /\ parsed.err = ""
    /\ Len(parsed.value) = 1
    /\ parsed.value[1].query_id = pr_tokens[1]
    /\ parsed.value[1].iteration = pr_tokens[2]
    /\ parsed.value[1].document_id = pr_tokens[3]
    /\ parsed.value[1].relevance = IntToken(pr_tokens[4]).val

\* C4 as stated: a results line of exactly six whitespace-separated tokens
\* whose 4th token is an integer and 5th a real number parses to the record
\* of its tokens, and a four-token judgment line whose 4th token is an
\* integer likewise, whatever the whitespace between the tokens.
C4_RoundTripAnyInteger ==
    /\ (pr_pc = "result" /\ Len(pr_tokens) = 6 /\ TokenIsInt(4) /\ TokenIsReal(5))
         => ResultCarriesTokens
    /\ (pr_pc = "rel" /\ Len(pr_tokens) = 4 /\ TokenIsInt(4))
         => RelCarriesTokens

\* C4 amended: the same, for an integer token whose value is in the range of
\* int (a decimal integer outside it makes from() raise "cannot parse rank"
\* or "cannot parse relevance").
C4_RoundTrip ==
    /\ (pr_pc = "result" /\ Len(pr_tokens) = 6 /\ TokenFitsInt(4) /\ TokenIsReal(5))
         => ResultCarriesTokens
    /\ (pr_pc = "rel" /\ Len(pr_tokens) = 4 /\ TokenFitsInt(4))
         => RelCarriesTokens

\* A results line laid out with tabs and a trailing carriage return, a signed
\* rank and a fractional score, was parsed into its record.
C4_Witness ==
    /\ pr_pc = "result"
    /\ pr_tokens = <<<<"0", "3", "0">>, IterationToken, DocumentToken,
                     <<"-", "1">>, <<"-", "0", ".", "2", "5">>, RunToken>>
    /\ "\t" \in {pr_line[i] : i \in 1..Len(pr_line)}
    /\ parsed.err = ""
    /\ parsed.value[1].rank = -1
    /\ parsed.value[1].score = Rat(-1, 4)
    /\ parsed.value[1].query_id = <<"0", "3", "0">>

\* The number of fields a record kind requires.
Required == IF pr_pc = "result" THEN 6 ELSE 4

\* Every numeric token among the first Required tokens of the line is valid.
NumericTokensValid ==
    IF pr_pc = "result"
    THEN /\ HasToken(4) => TokenFitsInt(4)
         /\ HasToken(5) => TokenIsReal(5)
    ELSE HasToken(4) => TokenFitsInt(4)

FieldErrors ==
    IF pr_pc = "result"
    THEN {"cannot parse rank", "cannot parse score"}
    ELSE {"cannot parse relevance"}

\* C5 as stated: from() raises "too many fields" for any line with more tokens
\* than required and "too few fields" for any line with fewer (the empty line
\* included), and returns no record.
C5_FieldCountAnyLine ==
    pr_pc # "idle" =>
        /\ Len(pr_tokens) > Required =>
             parsed.err = "too many fields" /\ parsed.value = <<>>
        /\ Len(pr_tokens) < Required =>
             parsed.err = "too few fields" /\ parsed.value = <<>>

\* C5 amended: a line with more or fewer tokens than required never yields a
\* record: from() raises a format error.  The error is "too many fields" or
\* "too few fields" when the numeric tokens of the line are valid; otherwise
\* it is that length error or the "cannot parse" error of a numeric field.
C5_FieldCount ==
    (pr_pc # "idle" /\ Len(pr_tokens) # Required) =>
        /\ parsed.value = <<>>
        /\ parsed.err \in
             {IF Len(pr_tokens) > Required THEN "too many fields" ELSE "too few fields"}
             \cup FieldErrors
        /\ NumericTokensValid =>
             parsed.err =
               (IF Len(pr_tokens) > Required THEN "too many fields" ELSE "too few fields")

\* A results line of seven tokens with valid numbers raised "too many fields".
C5_Witness ==
    /\ pr_pc = "result"
    /\ Len(pr_tokens) = 7
    /\ NumericTokensValid
    /\ parsed.err = "too many fields"
    /\ parsed.value = <<>>

\* C6: from() raises "cannot parse rank" ("cannot parse relevance" for a
\* judgment) whenever the 4th token is not, in its entirety, a valid integer,
\* and "cannot parse score" whenever the 5th token (after a rank that parsed)
\* is not, in its entirety, a valid real number; no record is returned.
C6_FieldErrors ==
    /\ (pr_pc = "result" /\ HasToken(4) /\ ~TokenIsInt(4)) =>
         parsed.err = "cannot parse rank" /\ parsed.value = <<>>
    /\ (pr_pc = "result" /\ HasToken(5) /\ TokenFitsInt(4) /\ ~TokenIsReal(5)) =>
         parsed.err = "cannot parse score" /\ parsed.value = <<>>
    /\ (pr_pc = "rel" /\ HasToken(4) /\ ~TokenIsInt(4)) =>
         parsed.err = "cannot parse relevance" /\ parsed.value = <<>>

(***************************************************************************)
(* Properties of the file readers.                                         *)
(***************************************************************************)
\* The non-empty lines among ls[i .. Len(ls)], in order.
RECURSIVE NonEmptyFrom(_, _)
NonEmptyFrom(ls, i) ==
    IF i > Len(ls) THEN <<>>
    ELSE (IF ls[i] # <<>> THEN <<ls[i]>> ELSE <<>>) \o NonEmptyFrom(ls, i + 1)

NonEmptyLines == NonEmptyFrom(rd_lines, 1)

\* C7: the readers parse each non-empty line of the file and return exactly
\* one record per non-empty line, in file order; an empty line is not parsed
\* and contributes neither a record nor an error.  So a read whose non-empty
\* lines all parse returns their records.
C7_OneRecordPerNonEmptyLine ==
    (/\ rd_pc \in {"returned", "failed"}
     /\ \A i \in 1..Len(NonEmptyLines) : RecordFrom(rd_kind, NonEmptyLines[i]).err = "")
    => /\ rd_pc = "returned"
       /\ rd_err = ""
       /\ rd_out = [i \in 1..Len(NonEmptyLines) |->
                      RecordFrom(rd_kind, NonEmptyLines[i]).value[1]]

(***************************************************************************)
(* Properties of grouping and annotation.                                  *)
(***************************************************************************)
\* The (run, iteration, query) keys of the grouping.
GroupKeys ==
    UNION { UNION { {<<run, it, q>> : q \in DOMAIN grouped_results[run][it]} :
                    it \in DOMAIN grouped_results[run] } :
            run \in DOMAIN grouped_results }

\* The positions in the judgment list of the judgments of document d for query q.
Judgments(q, d) ==
    {j \in 1..Len(an_rels) : an_rels[j].query_id = q /\ an_rels[j].document_id = d}

Last(js) == CHOOSE j \in js : \A k \in js : k <= j

\* C8: when the judgment list holds several judgments with the same query_id
\* and document_id, annotate returns and every result with that query_id and
\* document_id carries the relevance of the last of them in the list.
C8_LastJudgmentWins ==
    an_pc = "returned" =>
        \A key \in GroupKeys :
            LET list == grouped_results[key[1]][key[2]][key[3]]
            IN  \A i \in 1..Len(list) :
                    LET js == Judgments(list[i].query_id, list[i].document_id)
                    IN  Cardinality(js) >= 2 =>
                            list[i].relevance = an_rels[Last(js)].relevance

\* D1 was judged 2 and then 1 for q0: the result of q0 for D1 carries 1.
C8_Witness ==
    /\ an_pc = "returned"
    /\ an_rels = <<Rel(Tok_q0, Tok_i0, Tok_D1, 2), Rel(Tok_q0, Tok_i1, Tok_D1, 1)>>
    /\ an_results = <<Result(Tok_R0, Tok_i0, Tok_q0, Tok_D1)>>
    /\ grouped_results[Tok_R0][Tok_i0][Tok_q0][1].relevance = 1

\* C9: after annotate every result whose (query_id, document_id) has a
\* judgment carries that judgment's relevance, and every result without one
\* (its query has no judgments, or the document is judged only under another
\* query) carries relevance 0; annotate returns all the same.
C9_MissingJudgmentIsZero ==
    an_pc = "returned" =>
        \A key \in GroupKeys :
            LET list == grouped_results[key[1]][key[2]][key[3]]
            IN  \A i \in 1..Len(list) :
                    LET js == Judgments(key[3], list[i].document_id)
                    IN  /\ js = {} => list[i].relevance = 0
                        /\ Cardinality(js) = 1 =>
                             \A j \in js : list[i].relevance = an_rels[j].relevance

\* D1 is judged 3 under q1 only: the result of q0 for D1 carries 0, the
\* result of q1 for D1 carries 3.
C9_Witness ==
    /\ an_pc = "returned"
    /\ an_rels = <<Rel(Tok_q1, Tok_i0, Tok_D1, 3)>>
    /\ an_results = <<Result(Tok_R0, Tok_i0, Tok_q0, Tok_D1),
                      Result(Tok_R0, Tok_i0, Tok_q1, Tok_D1)>>
    /\ grouped_results[Tok_R0][Tok_i0][Tok_q0][1].relevance = 0
    /\ grouped_results[Tok_R0][Tok_i0][Tok_q1][1].relevance = 3

\* The records of a list with their relevance as parsed.
Unannotated(list) == [i \in 1..Len(list) |-> [list[i] EXCEPT !.relevance = 0]]

\* The input results with the given keys, in input order.
ResultsOf(run, it, q) ==
    LET Matches(r) == r.run_id = run /\ r.iteration = it /\ r.query_id = q
    IN  SelectSeq(an_results, Matches)

\* The input judgments of query q, in input order.
RelsOf(q) ==
    LET Matches(r) == r.query_id = q
    IN  SelectSeq(an_rels, Matches)

RECURSIVE TotalGrouped(_)
TotalGrouped(keys) ==
    IF keys = {} THEN 0
    ELSE LET key == CHOOSE k \in keys : TRUE
         IN  Len(grouped_results[key[1]][key[2]][key[3]]) + TotalGrouped(keys \ {key})

\* C10: group (and annotate) partitions the input results: every input record
\* is in exactly one innermost list, the one keyed by its own run_id,
\* iteration and query_id; the lists hold as many records as the input; each
\* list keeps the input order.  group_by_query does the same by query_id.
C10_GroupPartitions ==
    /\ an_pc \in {"grouped", "annotating", "returned"} =>
         /\ GroupKeys = {<<an_results[i].run_id, an_results[i].iteration,
                           an_results[i].query_id>> : i \in 1..Len(an_results)}
         /\ \A key \in GroupKeys :
                Unannotated(grouped_results[key[1]][key[2]][key[3]])
                    = ResultsOf(key[1], key[2], key[3])
         /\ TotalGrouped(GroupKeys) = Len(an_results)
    /\ an_pc \in {"annotating", "returned"} =>
         /\ \A q \in DOMAIN grouped_rels : grouped_rels[q] = RelsOf(q)
         /\ \A i \in 1..Len(an_rels) : an_rels[i].query_id \in DOMAIN grouped_rels
         /\ an_writes = <<>> =>
              DOMAIN grouped_rels = {an_rels[i].query_id : i \in 1..Len(an_rels)}

\* Two results of one group with a result of another run between them: the
\* group holds the two in input order.
C10_Witness ==
    /\ an_pc = "returned"
    /\ an_results = <<Result(Tok_R0, Tok_i0, Tok_q0, Tok_D1),
                      Result(Tok_R1, Tok_i0, Tok_q0, Tok_D2),
                      Result(Tok_R0, Tok_i0, Tok_q0, Tok_D2)>>
    /\ Len(grouped_results[Tok_R0][Tok_i0][Tok_q0]) = 2
    /\ grouped_results[Tok_R0][Tok_i0][Tok_q0][1].document_id = Tok_D1
    /\ grouped_results[Tok_R0][Tok_i0][Tok_q0][2].document_id = Tok_D2
    /\ Len(grouped_results[Tok_R1][Tok_i0][Tok_q0]) = 1

(***************************************************************************)
(* Range of the two named metrics.                                         *)
(***************************************************************************)
InUnitInterval(x) == RLe(Zero, x) /\ RLe(x, One)

\* C18: for every k >= 1 and every persistence p with 0 <= p <= 1,
\* precision_at(k) and rank_biased_precision(p) return a value in [0, 1] on
\* every integer relevance sequence; rank_biased_precision(0) equals
\* precision_at(1) on every sequence and rank_biased_precision(1) is 0 on
\* every sequence.
C18_UnitInterval ==
    ev_pc = "done" =>
        /\ \A k \in 1..MaxK : metric = precision_at(k) => InUnitInterval(ev_acc)
        /\ \A p \in Persistences :
              metric = rank_biased_precision(p) =>
                  /\ InUnitInterval(ev_acc)
                  /\ p = Zero => ev_acc = Evaluate(precision_at(1), relevance)
                  /\ p = One => ev_acc = Zero

\* rank_biased_precision(0) scored a sequence that starts with a relevant
\* document and has others after it.
C18_Witness ==
    /\ ev_pc = "done"
    /\ metric = rank_biased_precision(Zero)
    /\ relevance = TestGraded
    /\ ev_acc = One
(***************************************************************************)
(* Precedence of field errors over length errors.                          *)
(***************************************************************************)
\* The error of the first numeric token, left to right, that is not a valid
\* number in its entirety; "" when every numeric token present is valid.
FirstFieldError ==
    IF pr_pc = "result"
    THEN IF HasToken(4) /\ ~TokenFitsInt(4) THEN "cannot parse rank"
         ELSE IF HasToken(5) /\ ~TokenIsReal(5) THEN "cannot parse score"
         ELSE ""
    ELSE IF HasToken(4) /\ ~TokenFitsInt(4) THEN "cannot parse relevance"
         ELSE ""

\* C14: a line with too few fields and an unparseable rank, score or
\* relevance token makes from() report that field's "cannot parse" error, not
\* "too few fields"; "too few fields" is reported only when no numeric token
\* of the line is in error.
C14_FieldErrorFirst ==
    (pr_pc # "idle" /\ Len(pr_tokens) < Required) =>
        /\ FirstFieldError # "" => parsed.err = FirstFieldError
        /\ parsed.err = "too few fields" => FirstFieldError = ""

\* The same precedence for the tokens std::stoi / std::stod themselves
\* reject: the field error of the first such token is the error reported.
C14_RejectedTokenFirst ==
    (pr_pc # "idle" /\ Len(pr_tokens) < Required) =>
        /\ (HasToken(4) /\ ~Stoi(pr_tokens[4]).ok) =>
              parsed.err = (IF pr_pc = "result" THEN "cannot parse rank"
                            ELSE "cannot parse relevance")
        /\ (pr_pc = "result" /\ HasToken(5) /\ Stoi(pr_tokens[4]).ok
               /\ ~Stod(pr_tokens[5]).ok) =>
              parsed.err = "cannot parse score"
        /\ parsed.err = "too few fields" =>
              /\ HasToken(4) => Stoi(pr_tokens[4]).ok
              /\ (pr_pc = "result" /\ HasToken(5)) => Stod(pr_tokens[5]).ok

\* A short results line whose rank token has no numeric prefix raised
\* "cannot parse rank".
C14_RejectedWitness ==
    /\ pr_pc = "result"
    /\ Len(pr_tokens) = 4
    /\ ~Stoi(pr_tokens[4]).ok
    /\ parsed.err = "cannot parse rank"
(***************************************************************************)
(* What annotation changes.                                                *)
(***************************************************************************)
\* How many times the relevance of record i of the list at key was assigned.
WriteCount(key, i) ==
    Cardinality({w \in 1..Len(an_writes) : an_writes[w] = <<key[1], key[2], key[3], i>>})

\* C15: annotate changes nothing of a result record except its relevance:
\* every record of the returned mapping has the query_id, iteration,
\* document_id, rank, score and run_id it had in the input list; relevance is
\* assigned exactly once per record (never twice while annotating); every
\* record of the returned mapping has had its relevance assigned.
C15_OnlyRelevanceChanges ==
    /\ an_pc \in {"annotating", "returned"} =>
         \A key \in GroupKeys :
             LET list == grouped_results[key[1]][key[2]][key[3]]
                 input == ResultsOf(key[1], key[2], key[3])
             IN  /\ Len(list) = Len(input)
                 /\ \A i \in 1..Len(list) :
                       /\ list[i].query_id = input[i].query_id
                       /\ list[i].iteration = input[i].iteration
                       /\ list[i].document_id = input[i].document_id
                       /\ list[i].rank = input[i].rank
                       /\ list[i].score = input[i].score
                       /\ list[i].run_id = input[i].run_id
                       /\ WriteCount(key, i) <= 1
                       /\ an_pc = "returned" => WriteCount(key, i) = 1
    /\ an_pc = "returned" => Len(an_writes) = Len(an_results)

\* Two results of one query, the second judged 2: each relevance was assigned
\* once and only the relevance of the second differs from the input.
C15_Witness ==
    /\ an_pc = "returned"
    /\ an_results = <<Result(Tok_R0, Tok_i0, Tok_q0, Tok_D2),
                      Result(Tok_R0, Tok_i0, Tok_q0, Tok_D1)>>
    /\ an_rels = <<Rel(Tok_q0, Tok_i0, Tok_D1, 2)>>
    /\ grouped_results[Tok_R0][Tok_i0][Tok_q0] =
         <<Result(Tok_R0, Tok_i0, Tok_q0, Tok_D2),
           [Result(Tok_R0, Tok_i0, Tok_q0, Tok_D1) EXCEPT !.relevance = 2]>>
    /\ Len(an_writes) = 2
(***************************************************************************)
(* What the assigned relevance depends on.                                 *)
(***************************************************************************)
\* The records of the returned mapping.
AnnotatedRecords ==
    UNION { {grouped_results[key[1]][key[2]][key[3]][i] :
                i \in 1..Len(grouped_results[key[1]][key[2]][key[3]])} :
            key \in GroupKeys }

\* The judgment list with the iteration field of judgment j replaced.
WithIteration(j, iteration) == [an_rels EXCEPT ![j].iteration = iteration]

\* C16: judgments are matched to results on (query_id, document_id) only: two
\* results with the same query_id and document_id receive the same relevance
\* whatever their run_id and iteration, and replacing only the iteration field
\* of any one judgment leaves the returned mapping, hence every assigned
\* relevance, unchanged.
C16_MatchOnQueryAndDocument ==
    an_pc = "returned" =>
        /\ \A a, b \in AnnotatedRecords :
              (a.query_id = b.query_id /\ a.document_id = b.document_id) =>
                  a.relevance = b.relevance
        /\ \A j \in 1..Len(an_rels) :
              \A iteration \in {Tok_i0, Tok_i1} \ {an_rels[j].iteration} :
                  annotate(an_results, WithIteration(j, iteration)) = grouped_results

\* D1 of q0 is returned under iterations i0 and i1 and by run R0; its one
\* judgment names iteration i1: both results carry the judged relevance.
C16_Witness ==
    /\ an_pc = "returned"
    /\ an_results = <<Result(Tok_R0, Tok_i0, Tok_q0, Tok_D1),
                      Result(Tok_R0, Tok_i1, Tok_q0, Tok_D1)>>
    /\ an_rels = <<Rel(Tok_q0, Tok_i1, Tok_D1, 1)>>
    /\ grouped_results[Tok_R0][Tok_i0][Tok_q0][1].relevance = 1
    /\ grouped_results[Tok_R0][Tok_i1][Tok_q0][1].relevance = 1
(***************************************************************************)
(* Properties of the metric names.                                         *)
(***************************************************************************)
\* C13: parse_metric accepts exactly two forms.  "P@<k>" yields
\* precision_at(k) when <k> is a non-negative integer string and raises the
\* "Failed to parse P@" error when <k> is empty, non-numeric or negative.
\* "RBP:<p>" yields rank_biased_precision(p / 100) when <p> is an integer
\* with 0 <= p <= 100, raises the range error when p < 0 or p > 100 and the
\* parse error when <p> is not an integer.  A name with neither prefix raises
\* "Unrecognized metric".
C13_ParseMetric ==
    mp_pc # "idle" =>
        LET a == MetricArg(mp_arg)
        IN  /\ mp_prefix = Prefix_P =>
                  /\ (a.int /\ a.fits /\ a.val >= 0) =>
                        mp_out = Returned(precision_at(a.val))
                  /\ (~a.int \/ (a.fits /\ a.val < 0)) =>
                        mp_out = Thrown("Failed to parse P@")
            /\ mp_prefix = Prefix_RBP =>
                  /\ (a.int /\ a.fits /\ a.val >= 0 /\ a.val <= 100) =>
                        mp_out = Returned(rank_biased_precision(Rat(a.val, 100)))
                  /\ (a.int /\ (~a.fits \/ a.val < 0 \/ a.val > 100)) =>
                        mp_out = Thrown("Failed to parse RBP: (p must be in [0, 100]%)")
                  /\ ~a.int => mp_out = Thrown("Failed to parse RBP:")
            /\ mp_prefix \notin {Prefix_P, Prefix_RBP} =>
                  mp_out = Thrown("Unrecognized metric: ")
(***************************************************************************)
(* Properties of the driver.                                               *)
(***************************************************************************)
\* What follows the first n characters of a name.
After(name, n) == SubSeq(name, n + 1, Len(name))

StartsWith(name, prefix) ==
    Len(name) >= Len(prefix) /\ SubSeq(name, 1, Len(prefix)) = prefix

\* A name of the mini-language: "P@" and a non-negative integer, or "RBP:"
\* and an integer of [0, 100].
NameValid(name) ==
    \/ /\ StartsWith(name, Prefix_P)
       /\ LET a == MetricArg(After(name, 2)) IN a.int /\ a.fits /\ a.val >= 0
    \/ /\ StartsWith(name, Prefix_RBP)
       /\ LET a == MetricArg(After(name, 4)) IN a.int /\ a.fits /\ a.val >= 0 /\ a.val <= 100

AllNamesValid == \A m \in 1..Len(metrics) : NameValid(metrics[m])

\* The metric a valid name stands for.
NamedMetric(name) ==
    IF StartsWith(name, Prefix_P)
    THEN precision_at(MetricArg(After(name, 2)).val)
    ELSE rank_biased_precision(Rat(MetricArg(After(name, 4)).val, 100))

\* The queries with at least one input result for the run and iteration.
QueriesWithResults(run, it) ==
    {an_results[i].query_id : i \in {j \in 1..Len(an_results) :
        an_results[j].run_id = run /\ an_results[j].iteration = it}}

\* The sum over the queries qs of the score the metric gives the annotated
\* results of the query for the run and iteration.
RECURSIVE ScoreSum(_, _, _, _)
ScoreSum(mt, run, it, qs) ==
    IF qs = {} THEN Zero
    ELSE LET q == CHOOSE x \in qs : TRUE
         IN  RAdd(Evaluate(mt, RelevanceRange(grouped_results[run][it][q])),
                  ScoreSum(mt, run, it, qs \ {q}))

MeanScore(mt, run, it) ==
    LET qs == QueriesWithResults(run, it)
        sum == ScoreSum(mt, run, it, qs)
    IN  Rat(sum.n, sum.d * Cardinality(qs))

\* The iterations of the input results of a run, in lexicographic order.
IterationsOf(run) ==
    SortedKeys({an_results[i].iteration : i \in {j \in 1..Len(an_results) :
                    an_results[j].run_id = run}})

\* The (run_id, iteration) pairs of the input results, by run_id and then by
\* iteration, both lexicographically.
ExpectedPairs ==
    LET runs == SortedKeys({an_results[i].run_id : i \in 1..Len(an_results)})
    IN  ConcatAll([r \in 1..Len(runs) |->
                     LET its == IterationsOf(runs[r])
                     IN  [i \in 1..Len(its) |-> <<runs[r], its[i]>>]], 1)

\* One line per pair and metric: pairs in order, metrics in the order supplied.
ExpectedOutput ==
    LET pairs == ExpectedPairs
    IN  ConcatAll([p \in 1..Len(pairs) |->
                     [m \in 1..Len(metrics) |->
                         [run_id |-> pairs[p][1],
                          iteration |-> pairs[p][2],
                          metric |-> metrics[m],
                          avg |-> MeanScore(NamedMetric(metrics[m]),
                                            pairs[p][1], pairs[p][2])]]], 1)

\* C11: on valid inputs the driver does not fail and emits exactly one line
\* per (run_id, iteration) pair of the results and per configured metric:
\* pairs in lexicographic order of run_id and then of iteration, metrics in
\* the order supplied, each value the arithmetic mean of the metric's score
\* over exactly the queries with a result for that run_id and iteration.  The
\* lines written so far are always the first lines of that output.
C11_OutputLines ==
    (mn_pc # "idle" /\ AllNamesValid) =>
        /\ mn_pc # "terminated"
        /\ mn_pc \in {"parsing", "annotate"} => output = <<>>
        /\ mn_pc \in {"scoring", "done"} =>
              LET expected == ExpectedOutput
              IN  /\ Len(output) <= Len(expected)
                  /\ output = SubSeq(expected, 1, Len(output))
                  /\ mn_pc = "done" => output = expected

\* Two runs, the first with two queries of which one has a relevant result:
\* four lines, P@2 before RBP:50 for R0 and then for R1, each the mean over
\* the queries of the run.
C11_Witness ==
    /\ mn_pc = "done"
    /\ metrics = <<Name_P(<<"2">>), Name_RBP(<<"5", "0">>)>>
    /\ an_results = <<Result(Tok_R1, Tok_i0, Tok_q0, Tok_D2),
                      Result(Tok_R0, Tok_i0, Tok_q0, Tok_D1),
                      Result(Tok_R0, Tok_i0, Tok_q1, Tok_D1)>>
    /\ an_rels = <<Rel(Tok_q0, Tok_i0, Tok_D1, 2)>>
    /\ output =
         << [run_id |-> Tok_R0, iteration |-> Tok_i0,
             metric |-> Name_P(<<"2">>), avg |-> Rat(1, 4)],
            [run_id |-> Tok_R0, iteration |-> Tok_i0,
             metric |-> Name_RBP(<<"5", "0">>), avg |-> Rat(1, 4)],
            [run_id |-> Tok_R1, iteration |-> Tok_i0,
             metric |-> Name_P(<<"2">>), avg |-> Zero],
            [run_id |-> Tok_R1, iteration |-> Tok_i0,
             metric |-> Name_RBP(<<"5", "0">>), avg |-> Zero] >>
\* Nothing was annotated, scored or written.
NothingScored ==
    /\ an_pc = "idle"
    /\ an_writes = <<>>
    /\ mn_scored = <<>>
    /\ output = <<>>

\* C12: if any configured metric name is unparseable or out of range,
\* whatever its position in the list, the driver fails before any annotation
\* or scoring: it never gets past the parsing of the names, no metric is
\* evaluated on any query and no line is emitted.
C12_FailsBeforeScoring ==
    (mn_pc # "idle" /\ ~AllNamesValid) =>
        /\ mn_pc \in {"parsing", "terminated"}
        /\ NothingScored

\* The same for the names parse_metric itself rejects on every run: with one
\* in the list, at any position, main never gets past the parsing.
C12_RejectedNameStops ==
    (mn_pc # "idle"
       /\ \E m \in 1..Len(metrics) : \A o \in parse_metric(metrics[m]) : o.err # "") =>
        /\ mn_pc \in {"parsing", "terminated"}
        /\ NothingScored

\* "P@1" parsed, then "RBP:101" raised the range error and ended the run.
C12_RejectedWitness ==
    /\ mn_pc = "terminated"
    /\ metrics = <<Name_P(<<"1">>), Name_RBP(<<"1", "0", "1">>)>>
    /\ Len(metric_functions) = 1
    /\ mn_err = "Failed to parse RBP: (p must be in [0, 100]%)"
    /\ Len(an_results) = 2
    /\ NothingScored
\* No level of a run -> iteration -> query -> results mapping is empty.
NoEmptyLevel(map) ==
    \A run \in DOMAIN map :
        /\ DOMAIN map[run] # {}
        /\ \A it \in DOMAIN map[run] :
              /\ DOMAIN map[run][it] # {}
              /\ \A q \in DOMAIN map[run][it] : Len(map[run][it][q]) >= 1

\* C17: the mapping group builds and annotate returns never has an empty
\* level: every run_id maps to at least one iteration, every iteration to at
\* least one query, every query to a non-empty result list.  So every
\* average the driver computes divides by a query count >= 1 and every
\* relevance sequence it hands to a metric has length >= 1.
C17_NoEmptyLevel ==
    /\ an_pc \in {"grouped", "annotating", "returned"} =>
         /\ NoEmptyLevel(grouped_results)
         /\ an_results # <<>> => grouped_results # EmptyMap
    /\ \A i \in 1..Len(mn_scored) : Len(mn_scored[i][4]) >= 1
    /\ \A i \in 1..Len(mn_divisors) : mn_divisors[i] >= 1

\* A run over three results of two runs and two metrics ended: three
\* relevance sequences were scored and four averages computed.
C17_Witness ==
    /\ mn_pc = "done"
    /\ an_pc = "returned"
    /\ an_results = <<Result(Tok_R1, Tok_i0, Tok_q0, Tok_D2),
                      Result(Tok_R0, Tok_i0, Tok_q0, Tok_D1),
                      Result(Tok_R0, Tok_i0, Tok_q1, Tok_D1)>>
    /\ Len(metrics) = 2
    /\ Len(mn_scored) = 3
    /\ mn_divisors = <<2, 2, 1, 1>>
====
